---- MODULE Spec2Model ----
(***************************************************************************)
(* desktopctl.py: a command-line helper that shells out to scrot and       *)
(* xdotool.  One behaviour of this module is one run of the program: the   *)
(* ambient environment, the search path and the global options are fixed   *)
(* at start, main() parses the command line and builds the context, and    *)
(* the selected handler performs its external invocations one at a time.   *)
(*                                                                         *)
(* Text is modelled as a sequence of one-character strings where the code  *)
(* inspects characters (split, strip, path parsing) and as a TLA+ string   *)
(* where the code only passes it on.                                       *)
(***************************************************************************)
EXTENDS Integers, Sequences, FiniteSets, TLC

VARIABLES
    osEnviron,   \* os.environ: a function from the variables that are set to their values
    onPath,      \* the tool names shutil.which resolves
    opts,        \* the global options given on the command line (--display, --xauthority)
    pc,          \* position of the run: "start", "handler", a handler's next step, "exit"
    args,        \* argparse's namespace for the selected subcommand
    ctx,         \* the Ctx built by main(), NoCtx before
    calls,       \* the external invocations made so far, in order, with their results
    stdout,      \* what the program itself printed, one element per print()
    stderr,      \* the message of the exception that ended the run
    exitStatus,  \* the process's exit status once pc = "exit"
    exc,         \* the exception that ended the run: "none" when the handler returned
    dirs,        \* the directories created by this run
    ids,         \* local ids of cmd_windows / cmd_activate
    out          \* local out of cmd_screenshot

vars == <<osEnviron, onPath, opts, pc, args, ctx, calls, stdout, stderr,
          exitStatus, exc, dirs, ids, out>>

----------------------------------------------------------------------------
(* Bounds of the model. *)

\* longest standard output of an `xdotool search`, in characters
MaxOut == 3
\* longest --out value, in characters
MaxPath == 3

----------------------------------------------------------------------------
(* Text helpers. *)

\* the characters str.split() and str.strip() treat as whitespace
Whitespace == {" ", "\n", "\t"}

\* all character sequences over alphabet of length at most n
SeqsUpTo(alphabet, n) == UNION {[1..k -> alphabet] : k \in 0..n}

RECURSIVE Text(_)
\* the string a character sequence spells
Text(s) == IF s = <<>> THEN "" ELSE Head(s) \o Text(Tail(s))

RECURSIVE Join(_, _)
Join(parts, sep) ==
    IF parts = <<>> THEN ""
    ELSE IF Len(parts) = 1 THEN parts[1]
    ELSE parts[1] \o sep \o Join(Tail(parts), sep)

RECURSIVE Intersperse(_, _)
\* the pieces of sep.join(parts), kept apart
Intersperse(parts, sep) ==
    IF Len(parts) <= 1 THEN parts
    ELSE <<parts[1], sep>> \o Intersperse(Tail(parts), sep)

RECURSIVE LStrip(_)
LStrip(s) == IF s # <<>> /\ Head(s) \in Whitespace THEN LStrip(Tail(s)) ELSE s

RECURSIVE RStrip(_)
RStrip(s) ==
    IF s # <<>> /\ s[Len(s)] \in Whitespace THEN RStrip(SubSeq(s, 1, Len(s) - 1)) ELSE s

\* str.strip()
Strip(s) == RStrip(LStrip(s))

RECURSIVE SplitFrom(_, _)
\* the whitespace-separated words of s, cur being the word being read
SplitFrom(s, cur) ==
    IF s = <<>> THEN (IF cur = <<>> THEN <<>> ELSE <<cur>>)
    ELSE IF Head(s) \in Whitespace
         THEN (IF cur = <<>> THEN <<>> ELSE <<cur>>) \o SplitFrom(Tail(s), <<>>)
         ELSE SplitFrom(Tail(s), Append(cur, Head(s)))

\* str.split() with no separator
Split(s) == SplitFrom(s, <<>>)

\* [x for x in stdout.split() if x.strip()]
WindowIds(s) ==
    LET kept == SelectSeq(Split(s), LAMBDA x : Strip(x) # <<>>)
    IN  [n \in 1..Len(kept) |-> Text(kept[n])]

----------------------------------------------------------------------------
(* pathlib.Path on POSIX. *)

RECURSIVE LeadingSlashes(_)
LeadingSlashes(s) == IF s # <<>> /\ Head(s) = "/" THEN 1 + LeadingSlashes(Tail(s)) ELSE 0

RECURSIVE ComponentsFrom(_, _)
\* the components of s between slashes, empty ones and "." dropped
ComponentsFrom(s, cur) ==
    LET done == IF cur = <<>> \/ cur = <<".">> THEN <<>> ELSE <<Text(cur)>>
    IN  IF s = <<>> THEN done
        ELSE IF Head(s) = "/" THEN done \o ComponentsFrom(Tail(s), <<>>)
        ELSE ComponentsFrom(Tail(s), Append(cur, Head(s)))

\* Path(s): exactly two leading slashes are kept, any other number is one root
PathOf(s) ==
    LET n == LeadingSlashes(s)
    IN  [root  |-> IF n = 0 THEN "" ELSE IF n = 2 THEN "//" ELSE "/",
         parts |-> ComponentsFrom(s, <<>>)]

\* str(path)
PathStr(p) ==
    IF p.root = "" /\ p.parts = <<>> THEN "." ELSE p.root \o Join(p.parts, "/")

\* path / name, for a relative one-component name
PathJoin(p, name) == [p EXCEPT !.parts = Append(@, name)]

\* path.parent
Parent(p) ==
    IF p.parts = <<>> THEN p ELSE [p EXCEPT !.parts = SubSeq(@, 1, Len(@) - 1)]

\* the directories mkdir(parents=True) has to make for p, outermost first
Chain(p) == [n \in 1..Len(p.parts) |-> [p EXCEPT !.parts = SubSeq(@, 1, n)]]

\* a root or the current directory always exists; anything else if it was made
DirExists(p) == p.parts = <<>> \/ p \in dirs

----------------------------------------------------------------------------
(* The inputs of a run. *)

Tools == {"scrot", "xdotool", "xdg-open", "gio", "chromium-browser"}

\* the candidates cmd_open tries, in its order
Openers == <<"xdg-open", "gio", "chromium-browser">>

\* exit statuses an external tool ends with
ExitCodes == {0, 1}

\* os.environ at start: DISPLAY and XAUTHORITY each unset, empty or set
Environs ==
    UNION {{e \in [S \cup {"LANG"} -> {"", ":1", "/x", "C"}] :
              /\ e["LANG"] = "C"
              /\ "DISPLAY" \in S => e["DISPLAY"] \in {"", ":1"}
              /\ "XAUTHORITY" \in S => e["XAUTHORITY"] \in {"", "/x"}} :
           S \in SUBSET {"DISPLAY", "XAUTHORITY"}}

\* --display and --xauthority: each absent, or given with an empty or non-empty value
GlobalOpts ==
    UNION {{o \in [S -> {"", ":9", "/y"}] :
              /\ "display" \in S => o["display"] \in {"", ":9"}
              /\ "xauthority" \in S => o["xauthority"] \in {"", "/y"}} :
           S \in SUBSET {"display", "xauthority"}}

\* an ordinary session: DISPLAY set, XAUTHORITY unset, no global option
PlainEnviron == [k \in {"DISPLAY", "LANG"} |-> IF k = "DISPLAY" THEN ":1" ELSE "C"]
NoOpts == [k \in {} |-> ""]

\* an optional value: None is the empty set
None == {}
Some(v) == {v}
The(o) == CHOOSE v \in o : TRUE

\* --button and --delay when not given
DefaultButton == 1
DefaultDelay == 12

PathChars == {"/", ".", "a"}
OutDirs == {<<"a", "/">>, <<"/", "a", "/", "a">>}
IdChars == {"1", "2", "\n"}
Patterns == {"Editor", ".*"}

\* the subcommands with the arguments parse_args can deliver
ArgSpace ==
    {[cmd |-> "screenshot", out |-> o, out_dir |-> d] :
        o \in {None} \cup {Some(s) : s \in SeqsUpTo(PathChars, MaxPath)}, d \in OutDirs}
    \cup {[cmd |-> "click", x |-> x, y |-> y, button |-> b] :
            x \in {-5, 100}, y \in {0, 200}, b \in {DefaultButton, 2}}
    \cup {[cmd |-> "type", text |-> t, delay |-> d] :
            t \in {"hi", ""}, d \in {DefaultDelay, 0}}
    \cup {[cmd |-> "key", keys |-> k] : k \in {"ctrl+l", "Return"}}
    \cup {[cmd |-> "where"], [cmd |-> "windows"]}
    \cup {[cmd |-> "activate", name |-> n] : n \in Patterns}
    \cup {[cmd |-> "open", url |-> u] : u \in {"https://example.org", ""}}

\* what one `xdotool search` can end with
SearchResults == [rc : ExitCodes, out : SeqsUpTo(IdChars, MaxOut)]

\* what one `xdotool getwindowname` can end with: the title and a newline when the
\* window is found, nothing on standard output when it is not
LookupResults ==
    {[rc |-> 0, out |-> t] : t \in {<<"\n">>, <<"t", "\n">>, <<" ", "t", " ", "t", "\n">>}}
    \cup {[rc |-> 1, out |-> <<>>]}

\* what one `xdotool getmouselocation --shell` can end with
WhereResults ==
    {[rc |-> 0, out |-> <<"X=1", "\n", "Y=2", "\n">>], [rc |-> 1, out |-> <<>>]}

\* what an invocation whose output is not captured can end with
PlainResults == {[rc |-> c, out |-> <<>>] : c \in ExitCodes}

\* datetime.utcnow().strftime('%Y%m%d-%H%M%S')
Timestamps == {"20240102-030405"}

----------------------------------------------------------------------------
(* Module level and the helpers. *)

\* os.environ.get(key) or fallback
EnvOr(environ, key, fallback) ==
    IF key \in DOMAIN environ /\ environ[key] # "" THEN environ[key] ELSE fallback

\* str(Path.home() / ".Xauthority")
HomeXauthority == "/home/u/.Xauthority"

DEFAULT_DISPLAY == EnvOr(osEnviron, "DISPLAY", ":0")
DEFAULT_XAUTHORITY == EnvOr(osEnviron, "XAUTHORITY", HomeXauthority)

\* an argparse string option with a default
OptOr(o, key, default) == IF key \in DOMAIN o THEN o[key] ELSE default

NoCtx == [built |-> FALSE]

\* Ctx(display=args.display, xauthority=args.xauthority)
Ctx(o) == [display    |-> OptOr(o, "display", DEFAULT_DISPLAY),
           xauthority |-> OptOr(o, "xauthority", DEFAULT_XAUTHORITY)]

\* run(): env = os.environ.copy(); env["DISPLAY"] = ...; env["XAUTHORITY"] = ...
RunEnv(c, environ) ==
    [k \in DOMAIN environ \cup {"DISPLAY", "XAUTHORITY"} |->
        IF k = "DISPLAY" THEN c.display
        ELSE IF k = "XAUTHORITY" THEN c.xauthority
        ELSE environ[k]]

EnvironMutatedInPlace(c, environ) == RunEnv(c, environ)

\* run() works on a copy: os.environ itself is what it was
EnvironAfterRun(c, environ) == environ

\* one subprocess.run through run(), made at source line `site`, ending as res
Call(site, argv, check, capture, res) ==
    [site |-> site, argv |-> argv, env |-> RunEnv(ctx, osEnviron),
     check |-> check, capture |-> capture, rc |-> res.rc, out |-> res.out]

RaisesOnAnyFailure(call) == call.rc # 0

\* subprocess.run(check=True) raises CalledProcessError on a non-zero exit
Raises(call) == call.check /\ call.rc # 0

\* shutil.which(b)
Which(b) == IF b \in onPath THEN Some([dir |-> "/usr/bin", name |-> b]) ELSE None

\* a or b, on optional values
OrElse(a, b) == IF a # None THEN a ELSE b

MissingNothing(bins) == <<>>

\* require_bins: missing = [b for b in bins if shutil.which(b) is None]
Missing(bins) == SelectSeq(bins, LAMBDA b : Which(b) = None)

\* the SystemExit message of require_bins
MissingMessage(missing) ==
    <<"Missing required command(s): ">> \o Intersperse(missing, ", ")
    \o <<"\nInstall (Debian/Ubuntu): sudo apt-get install -y ">>
    \o Intersperse(missing, " ")

\* raise SystemExit("No URL opener found (tried xdg-open/gio/chromium-browser)")
NoOpenerMessage ==
    <<"No URL opener found (tried ">> \o Intersperse(Openers, "/") \o <<")">>

NoWindowMessageAnonymous(name) == <<"No window found">>

\* raise SystemExit(f"No window found matching: {args.name}")
NoWindowMessage(name) == <<"No window found matching: ", name>>

----------------------------------------------------------------------------
(* How a step ends. *)

Exit(status, e, msg) ==
    /\ pc' = "exit"
    /\ exitStatus' = status
    /\ exc' = e
    /\ stderr' = msg

\* the handler returns, main() returns, the interpreter exits 0
Return == Exit(0, "none", <<>>)

\* raise SystemExit(msg): the message goes to standard error, the status is 1
SysExit(msg) == Exit(1, "SystemExit", msg)

CalledProcessErrorSwallowed ==
    /\ pc' = "exit"
    /\ exitStatus' = 0
    /\ exc' = "CalledProcessError"
    /\ stderr' = <<>>

\* an uncaught CalledProcessError: a traceback, the status is 1
CalledProcessError == Exit(1, "CalledProcessError", <<"Traceback: CalledProcessError">>)

\* an uncaught OSError from mkdir
OSError == Exit(1, "OSError", <<"Traceback: OSError">>)

Goto(label) == pc' = label /\ UNCHANGED <<exitStatus, exc, stderr>>

Invoke(call) ==
    /\ calls' = Append(calls, call)
    /\ osEnviron' = EnvironAfterRun(ctx, osEnviron)

NoInvoke == UNCHANGED <<calls, osEnviron>>

\* require_bins failed at the head of a handler
MissingExit(missing) ==
    /\ SysExit(MissingMessage(missing))
    /\ NoInvoke
    /\ UNCHANGED <<stdout, dirs, ids, out>>

----------------------------------------------------------------------------
(* The run. *)

Init ==
    /\ \/ osEnviron \in Environs /\ opts \in GlobalOpts /\ onPath = Tools
       \/ osEnviron = PlainEnviron /\ opts = NoOpts /\ onPath \in SUBSET Tools
    /\ pc = "start"
    /\ args = [cmd |-> "none"]
    /\ ctx = NoCtx
    /\ calls = <<>>
    /\ stdout = <<>>
    /\ stderr = <<>>
    /\ exitStatus = 0
    /\ exc = "none"
    /\ dirs = {}
    /\ ids = <<>>
    /\ out = PathOf(<<>>)

\* main(): parse_args, build the context; args.func is called next
Main ==
    /\ pc = "start"
    /\ \E a \in ArgSpace : args' = a
    /\ ctx' = Ctx(opts)
    /\ pc' = "handler"
    /\ UNCHANGED <<osEnviron, onPath, opts, calls, stdout, stderr, exitStatus, exc,
                   dirs, ids, out>>

MoveArgvSwapped(x, y) == <<"xdotool", "mousemove", ToString(y), ToString(x)>>

\* ["xdotool", "mousemove", str(args.x), str(args.y)]
MoveArgv(x, y) == <<"xdotool", "mousemove", ToString(x), ToString(y)>>

\* cmd_click up to and including the mousemove
CmdClickMove ==
    /\ pc = "handler" /\ args.cmd = "click"
    /\ LET missing == Missing(<<"xdotool">>)
       IN  IF missing # <<>> THEN MissingExit(missing)
           ELSE \E res \in PlainResults :
                  LET call == Call(60, MoveArgv(args.x, args.y), TRUE, FALSE, res)
                  IN  /\ Invoke(call)
                      /\ IF Raises(call) THEN CalledProcessError ELSE Goto("click")
                      /\ UNCHANGED <<stdout, dirs, ids, out>>
    /\ UNCHANGED <<onPath, opts, args, ctx>>

\* cmd_click: the click
CmdClickClick ==
    /\ pc = "click"
    /\ \E res \in PlainResults :
         LET call == Call(61, <<"xdotool", "click", ToString(args.button)>>,
                          TRUE, FALSE, res)
         IN  /\ Invoke(call)
             /\ IF Raises(call) THEN CalledProcessError ELSE Return
    /\ UNCHANGED <<onPath, opts, args, ctx, stdout, dirs, ids, out>>

ScreenshotPathIgnoringOut(a, ts) ==
    PathJoin(PathOf(a.out_dir), "desktop-" \o ts \o ".png")

\* out = Path(args.out) if args.out else Path(args.out_dir) / f"desktop-{...}.png"
ScreenshotPath(a, ts) ==
    IF a.out # None /\ The(a.out) # <<>>
    THEN PathOf(The(a.out))
    ELSE PathJoin(PathOf(a.out_dir), "desktop-" \o ts \o ".png")

\* cmd_screenshot up to and including out.parent.mkdir(parents=True, exist_ok=True)
CmdScreenshotMkdir ==
    /\ pc = "handler" /\ args.cmd = "screenshot"
    /\ LET missing == Missing(<<"scrot">>)
       IN  IF missing # <<>> THEN MissingExit(missing)
           ELSE \E ts \in Timestamps :
                  LET o == ScreenshotPath(args, ts)
                      chain == Chain(Parent(o))
                  IN  /\ out' = o
                      /\ \/ /\ dirs' = dirs \cup {chain[n] : n \in 1..Len(chain)}
                            /\ Goto("scrot")
                         \/ \* mkdir fails part of the way
                            \E made \in 0..(Len(chain) - 1) :
                              /\ dirs' = dirs \cup {chain[n] : n \in 1..made}
                              /\ OSError
                      /\ NoInvoke
                      /\ UNCHANGED <<stdout, ids>>
    /\ UNCHANGED <<onPath, opts, args, ctx>>

\* cmd_screenshot: run scrot, print the path
CmdScreenshotScrot ==
    /\ pc = "scrot"
    /\ \E res \in PlainResults :
         LET call == Call(54, <<"scrot", PathStr(out)>>, TRUE, FALSE, res)
         IN  /\ Invoke(call)
             /\ IF Raises(call)
                THEN CalledProcessError /\ UNCHANGED stdout
                ELSE stdout' = Append(stdout, PathStr(out)) /\ Return
    /\ UNCHANGED <<onPath, opts, args, ctx, dirs, ids, out>>

\* cmd_type
CmdType ==
    /\ pc = "handler" /\ args.cmd = "type"
    /\ LET missing == Missing(<<"xdotool">>)
       IN  IF missing # <<>> THEN MissingExit(missing)
           ELSE \E res \in PlainResults :
                  LET call == Call(66, <<"xdotool", "type", "--delay",
                                        ToString(args.delay), args.text>>,
                                   TRUE, FALSE, res)
                  IN  /\ Invoke(call)
                      /\ IF Raises(call) THEN CalledProcessError ELSE Return
                      /\ UNCHANGED <<stdout, dirs, ids, out>>
    /\ UNCHANGED <<onPath, opts, args, ctx>>

\* cmd_key
CmdKey ==
    /\ pc = "handler" /\ args.cmd = "key"
    /\ LET missing == Missing(<<"xdotool">>)
       IN  IF missing # <<>> THEN MissingExit(missing)
           ELSE \E res \in PlainResults :
                  LET call == Call(71, <<"xdotool", "key", args.keys>>, TRUE, FALSE, res)
                  IN  /\ Invoke(call)
                      /\ IF Raises(call) THEN CalledProcessError ELSE Return
                      /\ UNCHANGED <<stdout, dirs, ids, out>>
    /\ UNCHANGED <<onPath, opts, args, ctx>>

\* cmd_where
CmdWhere ==
    /\ pc = "handler" /\ args.cmd = "where"
    /\ LET missing == Missing(<<"xdotool">>)
       IN  IF missing # <<>> THEN MissingExit(missing)
           ELSE \E res \in WhereResults :
                  LET call == Call(76, <<"xdotool", "getmouselocation", "--shell">>,
                                   TRUE, TRUE, res)
                  IN  /\ Invoke(call)
                      /\ IF Raises(call)
                         THEN CalledProcessError /\ UNCHANGED stdout
                         ELSE stdout' = Append(stdout, Text(Strip(call.out))) /\ Return
                      /\ UNCHANGED <<dirs, ids, out>>
    /\ UNCHANGED <<onPath, opts, args, ctx>>

\* cmd_windows up to and including the search; with no id the loop body never runs
CmdWindowsSearch ==
    /\ pc = "handler" /\ args.cmd = "windows"
    /\ LET missing == Missing(<<"xdotool">>)
       IN  IF missing # <<>> THEN MissingExit(missing)
           ELSE \E res \in SearchResults :
                  LET call == Call(82, <<"xdotool", "search", "--onlyvisible", "--name",
                                        ".*">>, FALSE, TRUE, res)
                  IN  /\ Invoke(call)
                      /\ ids' = WindowIds(call.out)
                      /\ IF Raises(call) THEN CalledProcessError
                         ELSE IF ids' = <<>> THEN Return ELSE Goto("names")
                      /\ UNCHANGED <<stdout, dirs, out>>
    /\ UNCHANGED <<onPath, opts, args, ctx>>

\* cmd_windows: one iteration of the loop over ids
CmdWindowsName ==
    /\ pc = "names"
    /\ LET wid == ids[Len(stdout) + 1]
       IN  \E res \in LookupResults :
             LET call == Call(85, <<"xdotool", "getwindowname", wid>>, FALSE, TRUE, res)
             IN  /\ Invoke(call)
                 /\ IF Raises(call)
                    THEN CalledProcessError /\ UNCHANGED stdout
                    ELSE /\ stdout' = Append(stdout, wid \o "\t" \o Text(Strip(call.out)))
                         /\ IF Len(stdout') = Len(ids) THEN Return ELSE Goto("names")
    /\ UNCHANGED <<onPath, opts, args, ctx, dirs, ids, out>>

\* cmd_activate up to and including the search and the choice of the window
CmdActivateSearch ==
    /\ pc = "handler" /\ args.cmd = "activate"
    /\ LET missing == Missing(<<"xdotool">>)
       IN  IF missing # <<>> THEN MissingExit(missing)
           ELSE \E res \in SearchResults :
                  LET call == Call(91, <<"xdotool", "search", "--onlyvisible", "--name",
                                        args.name>>, FALSE, TRUE, res)
                  IN  /\ Invoke(call)
                      /\ ids' = WindowIds(call.out)
                      /\ IF Raises(call) THEN CalledProcessError
                         ELSE IF ids' = <<>> THEN SysExit(NoWindowMessage(args.name))
                         ELSE Goto("activate")
                      /\ UNCHANGED <<stdout, dirs, out>>
    /\ UNCHANGED <<onPath, opts, args, ctx>>

PickFirstWindow(found) == found[1]

\* wid = ids[-1]
PickWindow(found) == found[Len(found)]

\* cmd_activate: activate the chosen window, print it
CmdActivateWindow ==
    /\ pc = "activate"
    /\ LET wid == PickWindow(ids)
       IN  \E res \in PlainResults :
             LET call == Call(96, <<"xdotool", "windowactivate", wid>>, TRUE, FALSE, res)
             IN  /\ Invoke(call)
                 /\ IF Raises(call)
                    THEN CalledProcessError /\ UNCHANGED stdout
                    ELSE stdout' = Append(stdout, wid) /\ Return
    /\ UNCHANGED <<onPath, opts, args, ctx, dirs, ids, out>>

FirstOpenerGioFirst == OrElse(Which("gio"), Which("xdg-open"))

\* opener = shutil.which("xdg-open") or shutil.which("gio")
FirstOpener == OrElse(Which("xdg-open"), Which("gio"))

\* str(path) of a resolved executable
BinStr(b) == b.dir \o "/" \o b.name

\* the invocation cmd_open makes, None when no candidate resolves
OpenCall(url, res) ==
    IF FirstOpener # None /\ The(FirstOpener).name = "gio"
    THEN Some(Call(103, <<BinStr(The(FirstOpener)), "open", url>>, FALSE, FALSE, res))
    ELSE IF FirstOpener # None
    THEN Some(Call(106, <<BinStr(The(FirstOpener)), url>>, FALSE, FALSE, res))
    ELSE IF Which("chromium-browser") # None
    THEN Some(Call(110, <<"chromium-browser", url>>, FALSE, FALSE, res))
    ELSE None

\* cmd_open
CmdOpen ==
    /\ pc = "handler" /\ args.cmd = "open"
    /\ \E res \in PlainResults :
         LET call == OpenCall(args.url, res)
         IN  IF call = None
             THEN SysExit(NoOpenerMessage) /\ NoInvoke
             ELSE /\ Invoke(The(call))
                  /\ IF Raises(The(call)) THEN CalledProcessError ELSE Return
    /\ UNCHANGED <<onPath, opts, args, ctx, stdout, dirs, ids, out>>

Next ==
    \/ Main
    \/ CmdScreenshotMkdir
    \/ CmdScreenshotScrot
    \/ CmdClickMove
    \/ CmdClickClick
    \/ CmdType
    \/ CmdKey
    \/ CmdWhere
    \/ CmdWindowsSearch
    \/ CmdWindowsName
    \/ CmdActivateSearch
    \/ CmdActivateWindow
    \/ CmdOpen

Spec == Init /\ [][Next]_vars

----------------------------------------------------------------------------
(* Vocabulary of the properties. *)

Exited == pc = "exit"
ExitedNonZero == pc = "exit" /\ exitStatus # 0
ExitedZero == pc = "exit" /\ exitStatus = 0

\* a handler has taken its first step
HandlerActed == pc \notin {"start", "handler"}

RECURSIVE Dedupe(_)
Dedupe(s) ==
    IF s = <<>> THEN <<>>
    ELSE <<Head(s)>> \o Dedupe(SelectSeq(Tail(s), LAMBDA x : x # Head(s)))

\* the tool names a message mentions, in the order of their first mention
NamedTools(msg) == Dedupe(SelectSeq(msg, LAMBDA t : t \in Tools))

\* the tools each subcommand cannot work without, in the order it asks for them;
\* `open` needs any one of its candidates, so it lacks a tool only when all are absent
RequiredTools(cmd) ==
    IF cmd = "screenshot" THEN <<"scrot">>
    ELSE IF cmd = "open" THEN (IF \E n \in 1..Len(Openers) : Openers[n] \in onPath
                               THEN <<>> ELSE Openers)
    ELSE <<"xdotool">>

AbsentTools(cmd) == SelectSeq(RequiredTools(cmd), LAMBDA b : b \notin onPath)

\* the identifiers the search of this run returned
Found == WindowIds(calls[1].out)

----------------------------------------------------------------------------
(* C1: whatever the subcommand, when a tool it requires is absent from the  *)
(* search path the process exits non-zero without having made any external *)
(* invocation, and the message names exactly the absent tools, in the      *)
(* order they are required.                                                *)
C1_MissingToolStopsFirst ==
    (HandlerActed /\ AbsentTools(args.cmd) # <<>>) =>
        /\ ExitedNonZero
        /\ calls = <<>>
        /\ stdout = <<>>
        /\ NamedTools(stderr) = AbsentTools(args.cmd)

C1_Witness ==
    /\ Exited /\ args.cmd = "activate"
    /\ "xdotool" \notin onPath /\ "scrot" \in onPath
    /\ exitStatus = 1 /\ exc = "SystemExit"

(* C2: when the search of `activate` returns a non-empty sequence of       *)
(* identifiers, the only activate invocation is on the last of them, and   *)
(* that identifier, and nothing else, is printed once that invocation has  *)
(* exited with status zero.                                                *)
C2_ActivatesLastMatch ==
    (args.cmd = "activate" /\ calls # <<>> /\ Found # <<>>) =>
        LET last == Found[Len(Found)]
        IN  /\ Len(calls) <= 2
            /\ Len(calls) = 2 =>
                 calls[2].argv = <<"xdotool", "windowactivate", last>>
            /\ stdout # <<>> =>
                 /\ stdout = <<last>>
                 /\ Len(calls) = 2 /\ calls[2].rc = 0
            /\ Exited => Len(calls) = 2
            /\ (Exited /\ calls[2].rc = 0) => (stdout = <<last>> /\ exitStatus = 0)

C2_Witness ==
    /\ Exited /\ args.cmd = "activate" /\ Len(calls) = 2
    /\ Len(Found) = 2 /\ Found[1] # Found[2]
    /\ stdout = <<Found[2]>>

(* C3: when the search of `activate` yields no identifier, also when the   *)
(* search itself exits non-zero with no output, the process exits non-zero *)
(* with a message containing the pattern supplied, makes no activate       *)
(* invocation and prints nothing.                                          *)
C3_NoMatchIsFatal ==
    (args.cmd = "activate" /\ calls # <<>> /\ Found = <<>>) =>
        /\ ExitedNonZero
        /\ \E n \in 1..Len(stderr) : stderr[n] = args.name
        /\ Len(calls) = 1
        /\ stdout = <<>>

C3_Witness ==
    /\ Exited /\ args.cmd = "activate" /\ Len(calls) = 1
    /\ calls[1].rc = 1 /\ calls[1].out = <<>>
    /\ exitStatus = 1 /\ args.name = ".*"

C5_FirstResolvingOpener ==
    (args.cmd = "open" /\ HandlerActed) =>
        LET resolving == SelectSeq(Openers, LAMBDA b : b \in onPath)
        IN  IF resolving # <<>>
            THEN /\ Len(calls) = 1
                 /\ calls[1].argv[1] \in {resolving[1], "/usr/bin/" \o resolving[1]}
                 /\ calls[1].argv[Len(calls[1].argv)] = args.url
                 /\ ExitedZero
            ELSE /\ calls = <<>>
                 /\ ExitedNonZero
                 /\ NamedTools(stderr) = Openers

C5_Witness ==
    /\ Exited /\ args.cmd = "open"
    /\ "xdg-open" \notin onPath /\ "gio" \in onPath /\ "chromium-browser" \in onPath
    /\ Len(calls) = 1 /\ calls[1].rc = 1
    /\ calls[1].argv = <<"/usr/bin/gio", "open", args.url>>
    /\ exitStatus = 0

(* C6: whenever xdotool resolves and the pointer-move exits with status    *)
(* zero, `click x y --button b` makes exactly two invocations, the move to *)
(* (x, y) and then the click of button b; the click is never issued before *)
(* the move has exited, and not at all when the move failed or xdotool is  *)
(* absent.                                                                 *)
C6_MoveThenClick ==
    (args.cmd = "click") =>
        /\ Len(calls) <= 2
        /\ calls # <<>> =>
             /\ "xdotool" \in onPath
             /\ calls[1].argv =
                  <<"xdotool", "mousemove", ToString(args.x), ToString(args.y)>>
        /\ Len(calls) = 2 =>
             /\ calls[1].rc = 0
             /\ calls[2].argv = <<"xdotool", "click", ToString(args.button)>>
        /\ (Exited /\ calls # <<>> /\ calls[1].rc = 0) => Len(calls) = 2
        /\ (Exited /\ "xdotool" \in onPath) => calls # <<>>

C6_Witness ==
    /\ Exited /\ args.cmd = "click" /\ Len(calls) = 2
    /\ args.x = 100 /\ args.y = 200 /\ args.button = 2
    /\ calls[1].argv = <<"xdotool", "mousemove", "100", "200">>
    /\ calls[2].argv = <<"xdotool", "click", "2">>

\* C6 as first stated: every finished `click` made exactly the two invocations
C6_AlwaysTwoInvocations ==
    (args.cmd = "click" /\ Exited) =>
        /\ Len(calls) = 2
        /\ calls[1].argv = <<"xdotool", "mousemove", ToString(args.x), ToString(args.y)>>
        /\ calls[2].argv = <<"xdotool", "click", ToString(args.button)>>

(* C7: once main() has built the context, before any handler runs, its     *)
(* display and xauthority fields are both non-empty strings, whatever the  *)
(* ambient environment and the --display / --xauthority options are.       *)
C7_ContextFieldsNonEmpty ==
    pc # "start" => (ctx.display # "" /\ ctx.xauthority # "")

\* the invocations that tolerate a non-zero exit, and those that do not
TolerantKinds == {"search", "getwindowname", "opener"}
FatalKinds ==
    {"scrot", "mousemove", "click", "type", "key", "getmouselocation", "windowactivate"}

\* what an invocation is, read off its argument vector
Kind(call) ==
    IF call.argv[1] = "xdotool" THEN call.argv[2]
    ELSE IF call.argv[1] = "scrot" THEN "scrot"
    ELSE "opener"

(* C8: a non-zero exit of a window search, a title lookup or an opener     *)
(* never ends the run; a non-zero exit of any other invocation ends it at  *)
(* once with a non-zero status, with no later invocation and nothing       *)
(* printed; and no invocation is made a second time.                       *)
C8_FailurePolicyPerCall ==
    /\ \A n \in 1..Len(calls) :
         /\ Kind(calls[n]) \in TolerantKinds \cup FatalKinds
         /\ (Kind(calls[n]) \in FatalKinds /\ calls[n].rc # 0) =>
              /\ n = Len(calls)
              /\ ExitedNonZero
              /\ stdout = <<>>
         /\ (Kind(calls[n]) \in TolerantKinds /\ calls[n].rc # 0 /\ n = Len(calls)) =>
              /\ exc # "CalledProcessError"
              /\ Exited => \/ exitStatus = 0
                           \/ args.cmd = "activate" /\ Found = <<>>
         /\ \A m \in 1..(n - 1) :
              \/ calls[m].site # calls[n].site
              \/ /\ args.cmd = "windows" /\ m > 1
                 /\ calls[m].argv[3] = Found[m - 1]
                 /\ calls[n].argv[3] = Found[n - 1]
    /\ args.cmd = "windows" /\ calls # <<>> => Len(calls) <= 1 + Len(Found)

C8_Witness ==
    /\ Exited /\ args.cmd = "activate" /\ Len(calls) = 2
    /\ calls[1].rc = 1 /\ calls[2].rc = 1
    /\ exitStatus = 1 /\ exc = "CalledProcessError" /\ stdout = <<>>

\* the order of cmd_screenshot's steps: check, mkdir, scrot, print
ScreenshotStepsInOrder ==
    /\ Len(calls) <= 1
    /\ "scrot" \notin onPath => (dirs = {} /\ calls = <<>>)
    /\ (pc = "scrot" \/ calls # <<>>) => DirExists(Parent(out))
    /\ calls # <<>> => (calls[1].argv[1] = "scrot" /\ Len(calls[1].argv) = 2)
    /\ stdout # <<>> => (calls # <<>> /\ calls[1].rc = 0 /\ stdout = <<calls[1].argv[2]>>)
    /\ (Exited /\ calls # <<>> /\ calls[1].rc = 0) => stdout # <<>>
    /\ (Exited /\ exc = "OSError") => calls = <<>>

(* C9: `screenshot` checks for scrot, makes the parent directory, runs     *)
(* scrot and prints, each step only after the previous one succeeded; the  *)
(* path given to scrot and the path printed are the same path: a non-empty *)
(* --out value as pathlib writes it (repeated and trailing slashes and     *)
(* "." components removed), otherwise a generated file under --out-dir.    *)
C9_ScreenshotStepsAndPath ==
    (args.cmd = "screenshot") =>
        /\ ScreenshotStepsInOrder
        /\ calls # <<>> =>
             IF args.out # None /\ The(args.out) # <<>>
             THEN /\ calls[1].argv[2] = PathStr(PathOf(The(args.out)))
                  /\ The(args.out) = <<"a", "/", "a">> => calls[1].argv[2] = "a/a"
                  /\ The(args.out) = <<"a", "/", "/">> => calls[1].argv[2] = "a"
             ELSE \E ts \in Timestamps :
                    calls[1].argv[2] =
                        PathStr(PathOf(args.out_dir)) \o "/desktop-" \o ts \o ".png"

C9_Witness ==
    /\ Exited /\ args.cmd = "screenshot" /\ exitStatus = 0
    /\ args.out = Some(<<"a", "/", "a">>)
    /\ dirs = {PathOf(<<"a">>)}
    /\ calls[1].argv = <<"scrot", "a/a">>
    /\ stdout = <<"a/a">>

\* C9 as first stated: the path is exactly the --out value whenever one is given
\* (read generously: an empty --out counts as not given)
C9_ExactlyTheOutValue ==
    (args.cmd = "screenshot") =>
        /\ ScreenshotStepsInOrder
        /\ (calls # <<>> /\ args.out # None /\ The(args.out) # <<>>) =>
             calls[1].argv[2] = Text(The(args.out))

\* every invocation so far ran with the inherited environment, the two overrides applied
EveryCallSeesContext ==
    \A n \in 1..Len(calls) :
        /\ DOMAIN calls[n].env = DOMAIN osEnviron \cup {"DISPLAY", "XAUTHORITY"}
        /\ calls[n].env["DISPLAY"] = ctx.display
        /\ calls[n].env["XAUTHORITY"] = ctx.xauthority
        /\ \A k \in DOMAIN osEnviron \ {"DISPLAY", "XAUTHORITY"} :
             calls[n].env[k] = osEnviron[k]
        /\ calls[n].env = calls[1].env

(* C10: no step of a run changes the context once it is built or the       *)
(* program's own environment, and every invocation runs with a copy of the *)
(* environment in which DISPLAY and XAUTHORITY are the context's fields    *)
(* and every other variable is as inherited.                               *)
C10_ContextAndEnvironFrozen ==
    [][/\ ctx # NoCtx => ctx' = ctx
       /\ osEnviron' = osEnviron
       /\ EveryCallSeesContext']_vars

C10_Witness ==
    /\ Exited /\ args.cmd = "windows" /\ Len(calls) = 3
    /\ "DISPLAY" \notin DOMAIN osEnviron /\ "XAUTHORITY" \in DOMAIN osEnviron
    /\ "display" \in DOMAIN opts /\ "xauthority" \notin DOMAIN opts
    /\ calls[3].env = [k \in {"DISPLAY", "XAUTHORITY", "LANG"} |->
                          IF k = "DISPLAY" THEN opts["display"]
                          ELSE IF k = "XAUTHORITY" THEN "/x" ELSE "C"]

====
